---- MODULE Spec2Model ----
(***************************************************************************)
(* VidMuse (audiocraft/models/vidmuse.py): the session object, its         *)
(* generation parameters and the windowed generation controller            *)
(* VidMuse._generate_tokens.                                               *)
(*                                                                         *)
(* Times are Python floats in the source.  The model keeps them as exact   *)
(* rationals with denominator TimeDen (hundredths of a second); the values *)
(* drawn for durations and strides are values on which binary floating     *)
(* point yields the same truncations as exact arithmetic.                  *)
(*                                                                         *)
(* A token tensor [B, K, T] is modelled by its time axis only: the         *)
(* interval [lo, hi) of timeline positions it holds.  A video feature      *)
(* tensor [B, C, T, H, W] is modelled the same way by the interval of      *)
(* frame indices of the caller's video it holds.                           *)
(***************************************************************************)
EXTENDS Integers, Sequences, FiniteSets, TLC

\* ---------------------------------------------------------------- constants
TimeDen == 100
frame_rate == 50
fps == 2
ForcedMaxDuration == 30
DefaultInitDuration == 15
DefaultExtendStride == 2950

\* ------------------------------------------------------------------- bounds
MaxIter == 5

\* -------------------------------------------------------------- input sets
\* max_duration given to the constructor (hundredths of a second)
MaxDurationInputs == {2000, 2950, 3000, 4000}
\* duration given to set_generation_params
DurationInputs == {200, 1500, 1501, 3000, 3001, 5000, 6000, 9000}
\* extend_stride given to set_generation_params
StrideInputs == {-50, 1, 30, 1000, 2950, 2975, 3500}
\* token length of a continuation prompt
PromptLenInputs == {25, 200, 1500, 1501}
\* frame count of the caller's local video tensor
VideoFrameInputs == {40, 100, 118, 120, 180}
\* number of descriptions / melody wavs / prompt batch entries
CountInputs == {1, 2, 3}

\* ------------------------------------------------------- sampling parameters
DefaultParams ==
  [use_sampling |-> TRUE, temp |-> 1, top_k |-> 250, top_p |-> 0,
   cfg_coef |-> 3, two_step_cfg |-> FALSE]

GreedyParams ==
  [use_sampling |-> FALSE, temp |-> 1, top_k |-> 50, top_p |-> 0,
   cfg_coef |-> 3, two_step_cfg |-> TRUE]

ParamInputs == {DefaultParams, GreedyParams}

EmptyParams ==
  [use_sampling |-> FALSE, temp |-> 0, top_k |-> 0, top_p |-> 0,
   cfg_coef |-> 0, two_step_cfg |-> FALSE]

\* ------------------------------------------------------------------ helpers
Min(a, b) == IF a <= b THEN a ELSE b

Max(a, b) == IF a >= b THEN a ELSE b

\* Python int() of the rational num/den (den > 0): truncation toward zero.
IntTrunc(num, den) ==
  IF num >= 0 THEN num \div den ELSE -((-num) \div den)

\* A tensor's time axis: positions lo .. hi-1.  None is the absent tensor.
None == [lo |-> -1, hi |-> -1]

Tensor(lo, hi) == [lo |-> lo, hi |-> hi]

Shape(t) == t.hi - t.lo

\* Python slice bound: index k on an axis of length n.
SliceIndex(k, n) == IF k >= 0 THEN Min(k, n) ELSE Max(n + k, 0)

\* t[..., k:]
SliceFrom(t, k) == Tensor(t.lo + SliceIndex(k, Shape(t)), t.hi)

\* t[..., :k]
SliceTo(t, k) == Tensor(t.lo, t.lo + SliceIndex(k, Shape(t)))

\* total time length of a list of tensors (torch.cat along the time axis)
RECURSIVE CatLen(_)
CatLen(ts) == IF ts = <<>> THEN 0 ELSE Shape(Head(ts)) + CatLen(Tail(ts))

\* ---------------------------------------------------------------- variables
VARIABLES
  constructed,          \* "none" | "ok" | "failed": outcome of VidMuse.__init__
  conditioners,         \* TRUE iff 'self_wav' is in lm.condition_provider.conditioners
  max_duration,         \* self.max_duration
  duration,             \* self.duration
  extend_stride,        \* self.extend_stride
  generation_params,    \* self.generation_params
  custom_progress_callback, \* TRUE iff self._progress_callback is not None
  call,                 \* the public call in progress or last made, with its arguments
  pc,                   \* "idle" | "loop" | "done" | "error"
  error,                \* the exception that ended the call, "none" otherwise
  total_gen_len,
  max_prompt_len,
  current_gen_offset,
  prompt_tokens,
  prompt_length,
  all_tokens,
  gen_tokens,           \* list of the segments of the tensor gen_tokens
  stride_tokens,
  stride_video_frames,
  attributes,           \* the attributes list of _generate_tokens
  lm_calls,             \* the calls of self.lm.generate made by the current call
  iterations            \* completed iterations of the while loop

session == <<constructed, conditioners, max_duration, duration, extend_stride,
             generation_params, custom_progress_callback>>

locals == <<total_gen_len, max_prompt_len, current_gen_offset, prompt_tokens,
            prompt_length, all_tokens, gen_tokens, stride_tokens,
            stride_video_frames, attributes, lm_calls, iterations>>

vars == <<constructed, conditioners, max_duration, duration, extend_stride,
          generation_params, custom_progress_callback, call, pc, error, total_gen_len, max_prompt_len,
          current_gen_offset, prompt_tokens, prompt_length, all_tokens,
          gen_tokens, stride_tokens, stride_video_frames, attributes,
          lm_calls, iterations>>

\* ------------------------------------------------------------- attributes
\* [local, global] video features, as built by generate()
VideoAttributes(frames) ==
  [kind |-> "video", len |-> 2, local |-> Tensor(0, frames), global |-> 1]

\* a list of n ConditioningAttributes, as built by _prepare_tokens_and_attributes
CondAttributes(n) ==
  [kind |-> "cond", len |-> n, local |-> None, global |-> 0]

NoAttributes == [kind |-> "none", len |-> 0, local |-> None, global |-> 0]

NoCall ==
  [op |-> "none", duration |-> 0, extend_stride |-> 0, params |-> EmptyParams,
   prompt |-> None, attributes |-> NoAttributes, descriptions |-> 0,
   melody_wavs |-> 0, prompt_batch |-> 0, scale_is_none |-> TRUE,
   progress |-> FALSE]

LocalsInit ==
  /\ total_gen_len = 0
  /\ max_prompt_len = 0
  /\ current_gen_offset = 0
  /\ prompt_tokens = None
  /\ prompt_length = 0
  /\ all_tokens = <<>>
  /\ gen_tokens = <<>>
  /\ stride_tokens = 0
  /\ stride_video_frames = 0
  /\ attributes = NoAttributes
  /\ lm_calls = <<>>
  /\ iterations = 0

Init ==
  /\ constructed = "none"
  /\ conditioners = FALSE
  /\ max_duration = 0
  /\ duration = 0
  /\ extend_stride = 0
  /\ generation_params = EmptyParams
  /\ custom_progress_callback = FALSE
  /\ call = NoCall
  /\ pc = "idle"
  /\ error = "none"
  /\ LocalsInit

\* ------------------------------------------------- set_generation_params
StrideAccepted_inclusive(stride, maxdur) == stride <= maxdur

\* line 138: assert extend_stride < self.max_duration
StrideAccepted(stride, maxdur) == stride < maxdur

SetCall(d, s, gp) ==
  [NoCall EXCEPT !.op = "set_generation_params", !.duration = d,
                 !.extend_stride = s, !.params = gp]

\* VidMuse.set_generation_params(duration=d, extend_stride=s, <sampling>=gp)
SetGenerationParams(d, s, gp) ==
  /\ constructed = "ok"
  /\ pc = "idle"
  /\ call' = SetCall(d, s, gp)
  /\ IF StrideAccepted(s, max_duration)
       THEN /\ extend_stride' = s
            /\ duration' = d
            /\ generation_params' = gp
            /\ error' = "none"
       ELSE /\ error' = "AssertionError: stride"
            /\ UNCHANGED <<extend_stride, duration, generation_params>>
  /\ UNCHANGED <<constructed, conditioners, max_duration, pc,
                 custom_progress_callback>>
  /\ UNCHANGED locals

\* VidMuse.set_custom_progress_callback(cb) (lines 150-152); is_set: cb is
\* not None
SetCustomProgressCallback(is_set) ==
  /\ constructed = "ok"
  /\ pc = "idle"
  /\ custom_progress_callback' = is_set
  /\ call' = [NoCall EXCEPT !.op = "set_custom_progress_callback",
                            !.progress = is_set]
  /\ error' = "none"
  /\ UNCHANGED <<constructed, conditioners, max_duration, duration,
                 extend_stride, generation_params, pc>>
  /\ UNCHANGED locals

\* ---------------------------------------------------------------- __init__
\* VidMuse(name, compression_model, lm, max_duration=m); has_wav tells whether
\* lm declares the 'self_wav' conditioner.
Construct(m, has_wav) ==
  /\ constructed = "none"
  /\ call' = [NoCall EXCEPT !.op = "__init__", !.duration = DefaultInitDuration * TimeDen,
                            !.extend_stride = DefaultExtendStride,
                            !.params = DefaultParams]
  /\ max_duration' = m
  /\ conditioners' = has_wav
  /\ custom_progress_callback' = FALSE
  /\ IF StrideAccepted(DefaultExtendStride, m)
       THEN /\ constructed' = "ok"
            /\ extend_stride' = DefaultExtendStride
            /\ duration' = DefaultInitDuration * TimeDen
            /\ generation_params' = DefaultParams
            /\ error' = "none"
       ELSE /\ constructed' = "failed"
            /\ error' = "AssertionError: stride"
            /\ UNCHANGED <<extend_stride, duration, generation_params>>
  /\ UNCHANGED pc
  /\ UNCHANGED locals

\* ------------------------------------------------------- the decoder (LM)
\* self.lm.generate(prompt, attributes, callback, max_gen_len, **params):
\* the returned tensor continues the prompt; its length is max_gen_len plus
\* the prompt's length when a prompt is supplied.
LmGenerate(prompt, max_gen_len) ==
  IF prompt = None
    THEN Tensor(0, max_gen_len)
    ELSE Tensor(prompt.lo, prompt.hi + max_gen_len)

DecoderRaisePc_swallowed == "loop"

\* lines 392-396: lm.generate is called outside any try block, so an
\* exception of the decoder ends _generate_tokens.
DecoderRaisePc == "error"

\* The number of internal steps of one lm.generate call; at step i = 1..n the
\* decoder invokes callback(i, n) when a callback was passed.
LmSteps(prompt, max_gen_len) == max_gen_len

ProgressCallback_stale(generated_tokens, offset) == generated_tokens

\* lines 344-345: the first value _progress_callback forwards; offset is
\* current_gen_offset as it is when the decoder invokes the closure
ProgressCallback(generated_tokens, offset) == generated_tokens + offset

NoReports == [count |-> 0, first |-> 0, last |-> 0, total |-> 0, sink |-> "none"]

\* lines 344-351, 357-359: what the n steps of one decoder call report: the
\* number of reports, the first argument of the first and of the last one,
\* their second argument, and where they go.
Reports(progress, n, offset, total) ==
  IF ~progress \/ n <= 0
    THEN NoReports
    ELSE [count |-> n,
          first |-> ProgressCallback(1, offset),
          last  |-> ProgressCallback(n, offset),
          total |-> total,
          sink  |-> IF custom_progress_callback THEN "callback" ELSE "print"]

LmCall(prompt, attrs, max_gen_len, out, reports) ==
  [prompt |-> prompt, attributes |-> attrs, max_gen_len |-> max_gen_len,
   params |-> generation_params, out |-> out, reports |-> reports]

\* -------------------------------------------------------- _generate_tokens
\* line 340
TotalGenLen(d) == IntTrunc(d * frame_rate, TimeDen)

MaxPromptLen_context_only(d, maxdur) == IntTrunc(maxdur * frame_rate, TimeDen)

\* line 341
MaxPromptLen(d, maxdur) == IntTrunc(Min(d, maxdur) * frame_rate, TimeDen)

\* lines 353-355
PromptAccepted(prompt, d, maxdur) ==
  prompt = None \/ MaxPromptLen(d, maxdur) >= Shape(prompt)

SingleShot_strict(d, maxdur) == d < maxdur

\* line 361
SingleShot(d, maxdur) == d <= maxdur

\* line 382
StrideTokens(stride) == IntTrunc(frame_rate * stride, TimeDen)

StrideVideoFrames_round(stride) == (2 * fps * stride + TimeDen) \div (2 * TimeDen)

\* line 385
StrideVideoFrames(stride) == IntTrunc(fps * stride, TimeDen)

LoopGuard_inclusive(offset, plen, total) == offset + plen <= total

\* line 387
LoopGuard(offset, plen, total) == offset + plen < total

\* line 388, in units of 1/TimeDen seconds
TimeOffset(offset) == (offset * TimeDen) \div frame_rate

ChunkDuration_unbounded(d, offset, maxdur) == d - TimeOffset(offset)

\* line 389
ChunkDuration(d, offset, maxdur) == Min(d - TimeOffset(offset), maxdur)

\* line 390
MaxGenLen(chunk) == IntTrunc(chunk * frame_rate, TimeDen)

LocalSlice_tail(local, chunk) == SliceFrom(local, -IntTrunc(chunk * fps, TimeDen))

\* line 395: attributes[0][:, :, :int(chunk_duration*self.fps), :, :]
LocalSlice(local, chunk) == SliceTo(local, IntTrunc(chunk * fps, TimeDen))

\* lines 398-401
NewTokens(gen, prompt) ==
  IF prompt = None THEN gen ELSE SliceFrom(gen, Shape(prompt))

NextPrompt_whole(gen, stride_tok) == gen

\* line 402
NextPrompt(gen, stride_tok) == SliceFrom(gen, stride_tok)

\* line 405; max_duration*fps is an exact integer for the forced max_duration
ClampBranch(local, stride_frames, maxdur) ==
  (Shape(local) - stride_frames) * TimeDen < maxdur * fps

NextWindow_head(local, stride_frames, maxdur) ==
  IF ClampBranch(local, stride_frames, maxdur)
    THEN SliceTo(local, (maxdur * fps) \div TimeDen)
    ELSE SliceFrom(local, stride_frames)

\* lines 405-408
NextWindow(local, stride_frames, maxdur) ==
  IF ClampBranch(local, stride_frames, maxdur)
    THEN SliceFrom(local, -((maxdur * fps) \div TimeDen))
    ELSE SliceFrom(local, stride_frames)

\* Which way _generate_tokens goes for the stored parameters (lines 353-373).
Route(prompt, d, stride, maxdur) ==
  IF ~PromptAccepted(prompt, d, maxdur) THEN "prompt_error"
  ELSE IF SingleShot(d, maxdur) THEN "single"
  ELSE IF ~StrideAccepted(stride, maxdur) THEN "stride_error"
  ELSE "loop"

\* _generate_tokens(attrs, prompt) up to the first test of the while loop
\* (lines 338-386); lm_fails: the decoder raises in the single-shot call.
GenerateTokensStart(attrs, prompt, progress, lm_fails) ==
  LET maxdur == ForcedMaxDuration * TimeDen
      total  == TotalGenLen(duration)
      route  == Route(prompt, duration, extend_stride, maxdur)
      out    == LmGenerate(prompt, total)
  IN
  /\ max_duration' = maxdur
  /\ total_gen_len' = total
  /\ max_prompt_len' = MaxPromptLen(duration, maxdur)
  /\ current_gen_offset' = 0
  /\ iterations' = 0
  /\ attributes' = attrs
  /\ prompt_tokens' = prompt
  /\ prompt_length' = IF route = "loop" /\ prompt # None THEN Shape(prompt) ELSE 0
  /\ all_tokens' = IF route = "loop" /\ prompt # None THEN <<prompt>> ELSE <<>>
  /\ stride_tokens' = IF route = "loop" THEN StrideTokens(extend_stride) ELSE 0
  /\ stride_video_frames' =
       IF route = "loop" THEN StrideVideoFrames(extend_stride) ELSE 0
  /\ lm_calls' =
       IF route = "single"
         THEN <<LmCall(prompt, attrs, total, IF lm_fails THEN None ELSE out,
                       IF lm_fails THEN NoReports
                       ELSE Reports(progress, LmSteps(prompt, total), 0, total))>>
         ELSE <<>>
  /\ gen_tokens' = IF route = "single" /\ ~lm_fails THEN <<out>> ELSE <<>>
  /\ pc' = CASE route = "loop" -> "loop"
             [] route = "single" /\ ~lm_fails -> "done"
             [] OTHER -> "error"
  /\ error' = CASE route = "prompt_error" -> "AssertionError: prompt"
                [] route = "stride_error" -> "AssertionError: stride"
                [] route = "single" /\ lm_fails -> "DecoderError"
                [] OTHER -> "none"
  /\ UNCHANGED <<constructed, conditioners, duration, extend_stride,
                 generation_params, custom_progress_callback>>

\* A public call that raises before _generate_tokens is entered.
RaiseBeforeGeneration(err) ==
  /\ pc' = "error"
  /\ error' = err
  /\ UNCHANGED session
  /\ UNCHANGED locals

\* VidMuse._generate_tokens([local, global], prompt_tokens) called directly
GenerateTokens(frames, prompt, progress, lm_fails) ==
  /\ constructed = "ok"
  /\ pc = "idle"
  /\ call' = [NoCall EXCEPT !.op = "_generate_tokens", !.prompt = prompt,
                            !.progress = progress,
                            !.attributes = VideoAttributes(frames)]
  /\ GenerateTokensStart(VideoAttributes(frames), prompt, progress, lm_fails)

\* VidMuse.generate(descriptions_list) with n entries (lines 170-198)
Generate(n, frames, progress, lm_fails) ==
  /\ constructed = "ok"
  /\ pc = "idle"
  /\ call' = [NoCall EXCEPT !.op = "generate", !.descriptions = n,
                            !.progress = progress,
                            !.attributes = VideoAttributes(frames)]
  /\ IF n # 2
       THEN RaiseBeforeGeneration("AssertionError: descriptions")
       ELSE GenerateTokensStart(VideoAttributes(frames), None, progress, lm_fails)

PrepareError_unchecked_count(descriptions, melody, prompt, scale_is_none) ==
  IF melody # 0 /\ ~conditioners THEN "RuntimeError: melody conditioning"
  ELSE IF prompt # 0 /\ descriptions # prompt THEN "AssertionError: prompt count"
  ELSE IF prompt # 0 /\ ~scale_is_none THEN "AssertionError: scale"
  ELSE "none"

\* _prepare_tokens_and_attributes (lines 284-325): the error it raises, or
\* "none".  melody = 0 stands for melody_wavs=None, prompt = 0 for prompt=None.
PrepareError(descriptions, melody, prompt, scale_is_none) ==
  IF melody # 0 /\ ~conditioners THEN "RuntimeError: melody conditioning"
  ELSE IF melody # 0 /\ melody # descriptions THEN "AssertionError: melody count"
  ELSE IF prompt # 0 /\ descriptions # prompt THEN "AssertionError: prompt count"
  ELSE IF prompt # 0 /\ ~scale_is_none THEN "AssertionError: scale"
  ELSE "none"

\* VidMuse.generate_with_chroma(descriptions, melody_wavs, ...) (lines 204-240)
GenerateWithChroma(n, melody, progress, lm_fails) ==
  /\ constructed = "ok"
  /\ pc = "idle"
  /\ call' = [NoCall EXCEPT !.op = "generate_with_chroma", !.descriptions = n,
                            !.melody_wavs = melody, !.progress = progress,
                            !.attributes = CondAttributes(n)]
  /\ IF PrepareError(n, melody, 0, TRUE) # "none"
       THEN RaiseBeforeGeneration(PrepareError(n, melody, 0, TRUE))
       ELSE GenerateTokensStart(CondAttributes(n), None, progress, lm_fails)

\* VidMuse.generate_continuation(prompt, rate, descriptions) (lines 242-267);
\* batch: len(prompt); plen: token length the codec encodes the prompt to;
\* scale_is_none: the codec returned no scale.
GenerateContinuation(n, batch, plen, scale_is_none, progress, lm_fails) ==
  /\ constructed = "ok"
  /\ pc = "idle"
  /\ call' = [NoCall EXCEPT !.op = "generate_continuation", !.descriptions = n,
                            !.prompt_batch = batch, !.prompt = Tensor(0, plen),
                            !.scale_is_none = scale_is_none,
                            !.progress = progress,
                            !.attributes = CondAttributes(n)]
  /\ IF PrepareError(n, 0, batch, scale_is_none) # "none"
       THEN RaiseBeforeGeneration(PrepareError(n, 0, batch, scale_is_none))
       ELSE GenerateTokensStart(CondAttributes(n), Tensor(0, plen), progress,
                                lm_fails)

\* One iteration of the while loop (lines 387-409).
LoopIter(lm_fails) ==
  LET chunk  == ChunkDuration(duration, current_gen_offset, max_duration)
      mgl    == MaxGenLen(chunk)
      passed == [attributes EXCEPT !.local = LocalSlice(attributes.local, chunk)]
      gen    == LmGenerate(prompt_tokens, mgl)
  IN
  /\ pc = "loop"
  /\ LoopGuard(current_gen_offset, prompt_length, total_gen_len)
  /\ iterations < MaxIter
  /\ IF attributes.kind # "video"
       THEN \* line 393 (len(attributes) # 2) or line 395 (not a tensor)
            /\ pc' = "error"
            /\ error' = "Error: attributes"
            /\ UNCHANGED locals
       ELSE IF lm_fails
       THEN /\ pc' = DecoderRaisePc
            /\ error' = "DecoderError"
            /\ lm_calls' = Append(lm_calls,
                 LmCall(prompt_tokens, passed, mgl, None, NoReports))
            /\ UNCHANGED <<total_gen_len, max_prompt_len, current_gen_offset,
                           prompt_tokens, prompt_length, all_tokens, gen_tokens,
                           stride_tokens, stride_video_frames, attributes,
                           iterations>>
       ELSE /\ lm_calls' = Append(lm_calls,
                 LmCall(prompt_tokens, passed, mgl, gen,
                        Reports(call.progress, LmSteps(prompt_tokens, mgl),
                                current_gen_offset, total_gen_len)))
            /\ gen_tokens' = <<gen>>
            /\ all_tokens' = Append(all_tokens, NewTokens(gen, prompt_tokens))
            /\ prompt_tokens' = NextPrompt(gen, stride_tokens)
            /\ prompt_length' = Shape(NextPrompt(gen, stride_tokens))
            /\ attributes' =
                 [attributes EXCEPT !.local =
                    NextWindow(attributes.local, stride_video_frames, max_duration)]
            /\ current_gen_offset' = current_gen_offset + stride_tokens
            /\ iterations' = iterations + 1
            /\ UNCHANGED <<pc, error, total_gen_len, max_prompt_len,
                           stride_tokens, stride_video_frames>>
  /\ UNCHANGED <<call>>
  /\ UNCHANGED session

\* The loop test fails: concatenate and return (lines 387, 411-412).
LoopExit ==
  /\ pc = "loop"
  /\ ~LoopGuard(current_gen_offset, prompt_length, total_gen_len)
  /\ gen_tokens' = all_tokens
  /\ pc' = "done"
  /\ UNCHANGED <<call, error, total_gen_len, max_prompt_len, current_gen_offset,
                 prompt_tokens, prompt_length, all_tokens, stride_tokens,
                 stride_video_frames, attributes, lm_calls, iterations>>
  /\ UNCHANGED session

\* The call has returned or raised; its locals are discarded.
Return ==
  /\ pc \in {"done", "error"}
  /\ pc' = "idle"
  /\ error' = "none"
  /\ call' = NoCall
  /\ total_gen_len' = 0
  /\ max_prompt_len' = 0
  /\ current_gen_offset' = 0
  /\ prompt_tokens' = None
  /\ prompt_length' = 0
  /\ all_tokens' = <<>>
  /\ gen_tokens' = <<>>
  /\ stride_tokens' = 0
  /\ stride_video_frames' = 0
  /\ attributes' = NoAttributes
  /\ lm_calls' = <<>>
  /\ iterations' = 0
  /\ UNCHANGED session

PromptInputs == {None} \cup {Tensor(0, p) : p \in PromptLenInputs}

Next ==
  \/ \E m \in MaxDurationInputs, w \in BOOLEAN : Construct(m, w)
  \/ \E d \in DurationInputs, s \in StrideInputs, gp \in ParamInputs :
       SetGenerationParams(d, s, gp)
  \/ \E cb \in BOOLEAN : SetCustomProgressCallback(cb)
  \/ \E f \in VideoFrameInputs, p \in PromptInputs, pr \in BOOLEAN,
        x \in BOOLEAN :
       GenerateTokens(f, p, pr, x)
  \/ \E n \in CountInputs, f \in VideoFrameInputs, pr \in BOOLEAN,
        x \in BOOLEAN :
       Generate(n, f, pr, x)
  \/ \E n \in CountInputs, k \in CountInputs, pr \in BOOLEAN, x \in BOOLEAN :
       GenerateWithChroma(n, k, pr, x)
  \/ \E n \in CountInputs, b \in CountInputs, p \in PromptLenInputs,
        sc \in BOOLEAN, pr \in BOOLEAN, x \in BOOLEAN :
       GenerateContinuation(n, b, p, sc, pr, x)
  \/ \E x \in BOOLEAN : LoopIter(x)
  \/ LoopExit
  \/ Return

Spec == Init /\ [][Next]_vars

\* ------------------------------------------------------------------ claims
\* the call in progress has entered _generate_tokens
Entered == attributes.kind # "none"

\* max_context_duration * audio_frame_rate, in tokens
ContextTokens == (max_duration * frame_rate) \div TimeDen

\* max_context_duration * video_frame_rate, in frames
ContextFrames == (max_duration * fps) \div TimeDen

\* a step that completes one iteration of the while loop
IterStep == pc = "loop" /\ iterations' = iterations + 1

\* C1: for an accepted stride and a duration that is a whole number of token
\* periods, the token sequence returned by _generate_tokens has exactly
\* duration * audio_frame_rate tokens, single-shot or multi-chunk, with or
\* without a prompt (stated here for the plainest case: a positive stride and
\* no prompt).
C1_LengthInvariant ==
  (pc = "done" /\ Entered /\ call.prompt = None
     /\ 0 < extend_stride /\ extend_stride < max_duration
     /\ (duration * frame_rate) % TimeDen = 0)
    => CatLen(gen_tokens) * TimeDen = duration * frame_rate

\* C2: when duration <= max_context_duration the call never enters the loop
\* and, when it returns, has made exactly one decoder call, for
\* max_gen_len = total_gen_len = int(duration * audio_frame_rate) tokens, with
\* the caller's prompt and attributes, and returns that call's output.
C2_SingleShot ==
  (Entered /\ duration <= max_duration) =>
    /\ pc # "loop"
    /\ iterations = 0
    /\ all_tokens = <<>>
    /\ Len(lm_calls) <= 1
    /\ pc = "done" =>
         /\ Len(lm_calls) = 1
         /\ lm_calls[1].max_gen_len = total_gen_len
         /\ total_gen_len * TimeDen <= duration * frame_rate
         /\ duration * frame_rate < (total_gen_len + 1) * TimeDen
         /\ lm_calls[1].prompt = call.prompt
         /\ lm_calls[1].attributes = call.attributes
         /\ lm_calls[1].params = generation_params
         /\ gen_tokens = <<lm_calls[1].out>>
         /\ CatLen(gen_tokens) = Shape(lm_calls[1].out)

C2_Witness ==
  /\ pc = "done"
  /\ duration <= max_duration
  /\ call.prompt # None
  /\ Len(lm_calls) = 1
  /\ call.attributes.kind = "video"

\* C3: in the multi-chunk path stride_tokens is positive, current_gen_offset
\* has grown by exactly stride_tokens per iteration, and the number of
\* iterations stays within ceil(total_gen_len / stride_tokens) (stated here
\* for the positive strides among the accepted ones).
C3_StrideMonotone ==
  (pc = "loop" /\ 0 < extend_stride) =>
    /\ stride_tokens > 0
    /\ current_gen_offset = iterations * stride_tokens
    /\ (iterations - 1) * stride_tokens < total_gen_len

\* C4: at the start of every chunk the number of video frames dropped from
\* the local window equals current_gen_offset * video_frame_rate /
\* audio_frame_rate (stated here for a positive stride and a video that
\* covers the whole duration).
C4_AudioVideoSync ==
  (pc = "loop" /\ attributes.kind = "video"
     /\ 0 < extend_stride
     /\ Shape(call.attributes.local) * TimeDen >= duration * fps
     /\ LoopGuard(current_gen_offset, prompt_length, total_gen_len))
    => (attributes.local.lo - call.attributes.local.lo) * frame_rate
         = current_gen_offset * fps

\* C5: Scenario B: duration 60 s, stride 29.5 s, no prompt: stride_tokens is
\* 1475, exactly two decoder calls are made and 3000 tokens are returned.
C5_ScenarioB ==
  (pc = "done" /\ Entered /\ duration = 60 * TimeDen
     /\ extend_stride = DefaultExtendStride /\ call.prompt = None)
    => /\ stride_tokens = 1475
       /\ Len(lm_calls) = 2
       /\ CatLen(gen_tokens) = 3000

C5_Witness ==
  /\ pc = "done"
  /\ duration = 60 * TimeDen
  /\ extend_stride = DefaultExtendStride
  /\ call.prompt = None
  /\ iterations = 2

\* C6 (as claimed): after each chunk, if the window's frame count minus
\* stride_video_frames is below max_context_duration * video_frame_rate the
\* window becomes the last max_context_duration * video_frame_rate frames and
\* has exactly that length; otherwise exactly the first stride_video_frames
\* frames are dropped.
C6_WindowClampExact ==
  [][IterStep =>
       LET w == attributes.local
           v == attributes'.local
       IN IF Shape(w) - stride_video_frames < ContextFrames
            THEN v.hi = w.hi /\ Shape(v) = ContextFrames
            ELSE v = Tensor(w.lo + stride_video_frames, w.hi)]_vars

\* C6 (amended): in the clamp branch the window becomes the last
\* min(max_context_duration * video_frame_rate, frame count) frames, so it has
\* exactly max_context_duration * video_frame_rate frames when it held at
\* least that many; otherwise a non-negative stride_video_frames drops exactly
\* that many leading frames and a negative one keeps the last
\* -stride_video_frames frames.
C6_WindowClamp ==
  [][IterStep =>
       LET w == attributes.local
           v == attributes'.local
           n == Shape(attributes.local)
       IN IF n - stride_video_frames < ContextFrames
            THEN /\ v = Tensor(w.hi - Min(ContextFrames, n), w.hi)
                 /\ n >= ContextFrames => Shape(v) = ContextFrames
            ELSE IF stride_video_frames >= 0
            THEN /\ v = Tensor(w.lo + stride_video_frames, w.hi)
                 /\ Shape(v) >= ContextFrames
            ELSE v = Tensor(w.hi - Min(-stride_video_frames, n), w.hi)]_vars

\* a window of max_context_duration*video_frame_rate + stride_video_frames - 1
\* frames has been clamped to its last max_context_duration*video_frame_rate
C6_Witness ==
  /\ iterations = 1
  /\ stride_video_frames > 0
  /\ Shape(call.attributes.local) = ContextFrames + stride_video_frames - 1
  /\ attributes.local.hi = call.attributes.local.hi
  /\ Shape(attributes.local) = ContextFrames

\* C7: set_generation_params fails whenever extend_stride >= max_duration and
\* then leaves duration, extend_stride and the sampling parameters as they
\* were; construction fails the same way for the default stride, and a
\* session whose construction failed never generates.
C7_ConfigGuard ==
  /\ [][(call'.op = "set_generation_params"
           /\ call'.extend_stride >= max_duration)
          => /\ error' # "none"
             /\ duration' = duration
             /\ extend_stride' = extend_stride
             /\ generation_params' = generation_params
             /\ max_duration' = max_duration
             /\ lm_calls' = <<>>
             /\ pc' = "idle"]_vars
  /\ [][(call'.op = "__init__" /\ DefaultExtendStride >= max_duration')
          => constructed' = "failed" /\ error' # "none"]_vars
  /\ [](constructed = "failed" => pc = "idle" /\ lm_calls = <<>> /\ ~Entered)

C7_Witness ==
  /\ call.op = "set_generation_params"
  /\ call.extend_stride >= max_duration
  /\ error = "AssertionError: stride"
  /\ extend_stride # call.extend_stride
  /\ duration # call.duration
  /\ generation_params # call.params

\* C8: a (duration, extend_stride) pair accepted by set_generation_params
\* never fails the stride check of a generation call.
C8_NoStrideFailureAtGeneration ==
  ~(pc = "error" /\ Entered /\ error = "AssertionError: stride")

\* C9 (as claimed): a prompt is rejected exactly when its token length
\* exceeds max_context_duration * audio_frame_rate, whatever the duration.
C9_PromptBudgetContext ==
  (Entered /\ call.prompt # None) =>
    ((error = "AssertionError: prompt") <=> (Shape(call.prompt) > ContextTokens))

\* C9 (amended): a prompt is rejected, before any decoder call, exactly when
\* its token length exceeds min(duration, max_context_duration) *
\* audio_frame_rate; otherwise it is accepted and generation proceeds.
C9_PromptBudget ==
  (Entered /\ call.prompt # None) =>
    /\ (error = "AssertionError: prompt")
         <=> (Shape(call.prompt) * TimeDen
                > Min(duration, max_duration) * frame_rate)
    /\ error = "AssertionError: prompt" => pc = "error" /\ lm_calls = <<>>
    /\ (error = "none" /\ pc # "done") =>
         (pc = "loop" /\ all_tokens[1] = call.prompt)
    /\ (error = "none" /\ pc = "done") =>
         /\ gen_tokens[1].lo = call.prompt.lo
         /\ gen_tokens[1].hi >= call.prompt.hi
         /\ lm_calls # <<>> => lm_calls[1].prompt = call.prompt

\* a prompt within the context budget is rejected for a short duration
C9_Witness ==
  /\ Entered
  /\ error = "AssertionError: prompt"
  /\ Shape(call.prompt) <= ContextTokens
  /\ lm_calls = <<>>

\* C10: a melody count that differs from the description count, a decoder
\* without the secondary-modality conditioner, or a non-null codec scale for
\* a continuation prompt ends the call in an error with no decoder call made.
C10_FailFastValidation ==
  LET invalid ==
        \/ /\ call.op = "generate_with_chroma"
           /\ (call.melody_wavs # call.descriptions \/ ~conditioners)
        \/ /\ call.op = "generate_continuation"
           /\ ~call.scale_is_none
  IN invalid => (pc = "error" /\ error # "none" /\ lm_calls = <<>> /\ ~Entered)

\* Scenario D: three melody wavs for two descriptions
C10_Witness ==
  /\ call.op = "generate_with_chroma"
  /\ call.melody_wavs = 3
  /\ call.descriptions = 2
  /\ error = "AssertionError: melody count"
  /\ lm_calls = <<>>

\* C11: when the decoder raises in a chunk of a multi-chunk generation the
\* call ends in that error: the failed call is the last decoder call, nothing
\* is appended or retried, and the call never reaches its return.
C11_NoPartialResults ==
  /\ [][(error' = "DecoderError" /\ error # "DecoderError") =>
          /\ pc' = "error"
          /\ Len(lm_calls') = Len(lm_calls) + 1
          /\ lm_calls'[Len(lm_calls')].out = None
          /\ all_tokens' = all_tokens
          /\ iterations' = iterations]_vars
  /\ [][error = "DecoderError" =>
          (pc' = "idle" /\ lm_calls' = <<>> /\ gen_tokens' = <<>>)]_vars
  /\ [](pc = "done" => \A i \in 1..Len(lm_calls) : lm_calls[i].out # None)

\* the decoder raised in a chunk after the first, with chunks accumulated
C11_Witness ==
  /\ pc = "error"
  /\ error = "DecoderError"
  /\ iterations >= 1
  /\ all_tokens # <<>>
  /\ Len(lm_calls) = iterations + 1

\* C12: with progress enabled each step of the decoder call of a chunk is
\* reported exactly once, with the decoder's step count plus the
\* current_gen_offset of that chunk as first argument and total_gen_len as
\* second; with progress disabled nothing is reported.
C12_ProgressReporting ==
  [][Len(lm_calls') = Len(lm_calls) + 1 =>
       LET c == lm_calls'[Len(lm_calls')]
           r == c.reports
       IN IF call'.progress /\ c.out # None /\ c.max_gen_len > 0
            THEN /\ r.count = c.max_gen_len
                 /\ r.first = 1 + (IF pc = "loop" THEN current_gen_offset ELSE 0)
                 /\ r.last = r.count + (IF pc = "loop" THEN current_gen_offset ELSE 0)
                 /\ r.total = total_gen_len'
                 /\ r.sink = IF custom_progress_callback THEN "callback" ELSE "print"
            ELSE r.count = 0 /\ r.sink = "none"]_vars

\* the second chunk reported its steps to the registered callback from a
\* positive offset
C12_Witness ==
  /\ call.progress
  /\ custom_progress_callback
  /\ Len(lm_calls) >= 2
  /\ stride_tokens > 0
  /\ lm_calls[2].reports.sink = "callback"
  /\ lm_calls[2].reports.first = 1 + stride_tokens
  /\ lm_calls[2].reports.total = total_gen_len

\* round to nearest, ties to the even neighbour (Python's round)
RoundHalfEven(num, den) ==
  LET q == num \div den
      r == num - q * den
  IN IF 2 * r < den THEN q
     ELSE IF 2 * r > den THEN q + 1
     ELSE IF q % 2 = 0 THEN q ELSE q + 1

\* C13 as stated: in the multi-chunk path stride_tokens and
\* stride_video_frames are the products of extend_stride with the audio and the
\* video frame rate rounded to the nearest integer.
C13_StrideRounded ==
  pc = "loop" =>
    /\ stride_tokens = RoundHalfEven(frame_rate * extend_stride, TimeDen)
    /\ stride_video_frames = RoundHalfEven(fps * extend_stride, TimeDen)

\* S is the product rate * stride with its fractional part dropped
TruncatedProduct(S, rate, stride) ==
  IF stride >= 0
    THEN S * TimeDen <= rate * stride /\ rate * stride < (S + 1) * TimeDen
    ELSE (S - 1) * TimeDen < rate * stride /\ rate * stride <= S * TimeDen

\* C13 amended: in the multi-chunk path stride_tokens and stride_video_frames
\* are the products of extend_stride with the audio and the video frame rate
\* truncated toward zero, whatever the fractional part.
C13_StrideTruncated ==
  pc = "loop" =>
    /\ TruncatedProduct(stride_tokens, frame_rate, extend_stride)
    /\ TruncatedProduct(stride_video_frames, fps, extend_stride)

\* a stride of 29.75 s, whose products 1487.5 and 59.5 end in one half
C13_Witness ==
  /\ pc = "loop"
  /\ extend_stride = 2975
  /\ stride_tokens = 1487
  /\ stride_video_frames = 59

\* C14: in every decoder call made by the loop the prompt plus the newly
\* generated tokens, i.e. the sequence the decoder returns, is at most
\* max_context_duration * audio_frame_rate tokens long (stated here for an
\* accepted stride of at least one token and a call without initial prompt).
C14_BoundedContext ==
  [][(IterStep /\ call.prompt = None /\ 0 < stride_tokens
        /\ 0 < extend_stride /\ extend_stride < max_duration) =>
       LET c == lm_calls'[Len(lm_calls')]
       IN /\ Shape(c.out) <= ContextTokens
          /\ (c.prompt # None =>
                Shape(c.prompt) + (Shape(c.out) - Shape(c.prompt)) <= ContextTokens)]_vars

\* C15: a chunk after the first that asks for the full context is seeded with
\* (max_context_duration - extend_stride) * audio_frame_rate tokens, appends
\* exactly stride_tokens tokens, and the appended tokens lie after everything
\* accumulated before (stated here for an accepted stride of at least one
\* token and a call without initial prompt).
C15_StrideOverlapPerChunk ==
  [][(IterStep /\ iterations >= 1 /\ call.prompt = None /\ 0 < stride_tokens
        /\ 0 < extend_stride /\ extend_stride < max_duration
        /\ lm_calls'[Len(lm_calls')].max_gen_len = ContextTokens) =>
       LET c   == lm_calls'[Len(lm_calls')]
           new == all_tokens'[Len(all_tokens')]
       IN /\ Shape(c.prompt) * TimeDen = (max_duration - extend_stride) * frame_rate
          /\ Len(all_tokens') = Len(all_tokens) + 1
          /\ Shape(new) = stride_tokens
          /\ new.lo >= all_tokens[Len(all_tokens)].hi]_vars

\* C16: every decoder call of the loop gets as local group the leading
\* int(chunk_duration * video_frame_rate) frames of the window the controller
\* holds at that moment (all of it when it is shorter) and as global group the
\* caller's; the controller's global group is the caller's throughout the loop
\* and when the call returns.
C16_ConditioningPerChunk ==
  /\ [][(pc = "loop" /\ Len(lm_calls') = Len(lm_calls) + 1) =>
          LET c       == lm_calls'[Len(lm_calls')]
              elapsed == (current_gen_offset * TimeDen) \div frame_rate
              chunk   == Min(duration - elapsed, max_duration)
              n       == Shape(c.attributes.local)
          IN /\ c.attributes.local.lo = attributes.local.lo
             /\ c.attributes.local.hi <= attributes.local.hi
             /\ n * TimeDen <= chunk * fps
             /\ (n = Shape(attributes.local) \/ chunk * fps < (n + 1) * TimeDen)
             /\ c.attributes.len = 2
             /\ c.attributes.global = call.attributes.global
             /\ (Len(lm_calls) >= 1 =>
                   c.attributes.global = lm_calls[Len(lm_calls)].attributes.global)
             /\ attributes'.global = attributes.global]_vars
  /\ []((pc \in {"loop", "done"} /\ attributes.kind = "video") =>
          attributes.global = call.attributes.global)

\* a 120-frame video: chunk 1 got frames 0..59, the window moved and chunk 2
\* got 60 frames that start later
C16_Witness ==
  /\ Len(lm_calls) >= 2
  /\ call.attributes = VideoAttributes(120)
  /\ lm_calls[1].attributes.local = Tensor(0, 60)
  /\ lm_calls[2].attributes.local.lo > 0
  /\ Shape(lm_calls[2].attributes.local) = 60
  /\ lm_calls[2].attributes.global = call.attributes.global

\* C17: when the caller's local window holds at least duration *
\* video_frame_rate frames, the controller's window holds at least
\* max_context_duration * video_frame_rate frames at the start of every chunk
\* and the decoder call of the chunk gets int(chunk_duration *
\* video_frame_rate) local frames, never fewer.
C17_NoWindowUnderrun ==
  [][(pc = "loop" /\ Len(lm_calls') = Len(lm_calls) + 1
        /\ Shape(call.attributes.local) * TimeDen >= duration * fps) =>
       LET c       == lm_calls'[Len(lm_calls')]
           elapsed == (current_gen_offset * TimeDen) \div frame_rate
           chunk   == Min(duration - elapsed, max_duration)
           n       == Shape(c.attributes.local)
       IN /\ Shape(attributes.local) >= ContextFrames
          /\ n * TimeDen <= chunk * fps
          /\ chunk * fps < (n + 1) * TimeDen]_vars

\* C18: no step of a generation call, from its entry to its return, changes
\* the session's max_duration, duration, extend_stride or sampling parameters,
\* and when the call is about to return the conditioning list holds the groups
\* the caller passed.
C18_GenerationStateLocal ==
  /\ [][(pc # "idle" \/ pc' # "idle") =>
          /\ max_duration' = max_duration
          /\ duration' = duration
          /\ extend_stride' = extend_stride
          /\ generation_params' = generation_params]_vars
  /\ []((pc = "done" /\ Entered) => attributes = call.attributes)

\* C19: when the loop of a multi-chunk call with stride_tokens > 0 has ended,
\* the chunks accumulated (initial prompt included) hold at least
\* total_gen_len tokens; while they hold fewer, the loop test current_gen_offset
\* + prompt_length < total_gen_len is true.
C19_LoopExitCoversTotal ==
  /\ (pc = "done" /\ Entered /\ duration > max_duration /\ stride_tokens > 0) =>
       CatLen(gen_tokens) >= total_gen_len
  /\ (pc = "loop" /\ stride_tokens > 0 /\ CatLen(all_tokens) < total_gen_len) =>
       current_gen_offset + prompt_length < total_gen_len

\* a call that ended after two chunks or more with more than total_gen_len
\* tokens
C19_Witness ==
  /\ pc = "done"
  /\ iterations >= 2
  /\ stride_tokens > 0
  /\ Len(gen_tokens) = iterations
  /\ CatLen(gen_tokens) > total_gen_len

\* C20: every decoder call of the loop asks for at least 1 and at most
\* max_context_duration * audio_frame_rate tokens, and every completed
\* iteration appends one segment of at least one new token.
C20_ChunkRequestBounds ==
  /\ [][(pc = "loop" /\ Len(lm_calls') = Len(lm_calls) + 1) =>
          /\ 1 <= lm_calls'[Len(lm_calls')].max_gen_len
          /\ lm_calls'[Len(lm_calls')].max_gen_len <= ContextTokens]_vars
  /\ [][IterStep =>
          /\ Len(lm_calls') = Len(lm_calls) + 1
          /\ Len(all_tokens') = Len(all_tokens) + 1
          /\ Shape(all_tokens'[Len(all_tokens')]) >= 1
          /\ all_tokens'[Len(all_tokens')].hi = lm_calls'[Len(lm_calls')].out.hi]_vars

\* a call with an initial prompt whose second chunk asked for less than the
\* full context and appended that many tokens
C20_Witness ==
  /\ pc = "loop"
  /\ call.prompt # None
  /\ Len(lm_calls) = 2
  /\ lm_calls[2].out # None
  /\ lm_calls[2].max_gen_len >= 1
  /\ lm_calls[2].max_gen_len < ContextTokens
  /\ Len(all_tokens) = 3
  /\ Shape(all_tokens[3]) = lm_calls[2].max_gen_len

====
